---- MODULE Spec2Model ----
(***************************************************************************)
(* The incremental polling engine of the mysqlrecords receiver:            *)
(* mySQLClient.getRecords and ExecuteQueryandFetchRecords (config.go),     *)
(* the checkpoint store they call (GetState / SaveState) and the delivery  *)
(* of the fetched batch to the downstream consumer (Spec, and StartupSpec   *)
(* for configurations whose QuerySpec is malformed); and the client        *)
(* itself, newMySQLClient, Connect and Close (ClientSpec).                 *)
(*                                                                         *)
(* Strings of the program are modelled as follows.  A query text is a      *)
(* sequence of tokens; a column value is an integer (the number its        *)
(* decimal text denotes), SQL NULL (a nil sql.RawBytes) is NullVal.        *)
(***************************************************************************)
EXTENDS Integers, Sequences, FiniteSets, TLC

\* ------------------------------------------------------------------ bounds
MaxRows  == 2       \* rows that may be inserted into the source table
MaxTicks == 2       \* polling ticks of one run

\* ------------------------------------------------------- program constants
\* Config.ConsumeMaxRetries: retries allowed for a transient delivery error
ConsumeMaxRetries == 2
\* a nil sql.RawBytes (SQL NULL) as scanned by rows.Scan
NullVal == 0
\* the string "NULL" of line 342, which is not the text of any number
NullText == -1

\* -------------------------------------------------------------- the source
\* column names returned by rows.Columns(), in result-set order; this is
\* also their lexicographic order, the order json.Marshal writes map keys in
Columns == <<"dept_no", "emp_no", "from_date">>
ColSet  == {Columns[i] : i \in 1..Len(Columns)}
ColIdx(k) == CHOOSE i \in 1..Len(Columns) : Columns[i] = k

\* the primary key of the table: an auto-increment column, never NULL
PrimaryKey == "emp_no"

\* a row is the sequence of its column values, aligned with Columns; the
\* other two columns are nullable
RowSpace == {NullVal, 1} \X (1..MaxRows + 1) \X {NullVal, 1}

\* the table as the receiver finds it: one row, whose key is the initial
\* value the cursor query is configured with
InitialRows == {<<1, 1, 1>>}

QueryIds == {"Q1", "Q2"}

\* ------------------------------------------------------------- query texts
W(s)    == [w |-> s, n |-> 0, q |-> FALSE]      \* a word
V(n, q) == [w |-> "#", n |-> n, q |-> q]        \* a literal, quoted or not
P(s, q) == [w |-> s, n |-> 0, q |-> q]          \* a placeholder, quoted or not

SelectFrom(tbl) == <<W("Select"), W("*"), W("from"), W(tbl)>>
\* a filter clause the configuration may already carry (true of every row)
Filter(kw) == <<W(kw), W("1=1")>>

\* strings.Contains(w, "where") over the words of the model
ContainsWhere(w) == w \in {"where", "nowhere_tbl"}
\* strings.Contains(dbquery.Query, "where")
Contains(text) == \E i \in 1..Len(text) : ContainsWhere(text[i].w)

\* strings.Replace(text, "STATEVALUE", currentState, -1)
ReplaceState(text, currentState) ==
    [i \in 1..Len(text) |->
        IF text[i].w = "STATEVALUE" THEN V(currentState, text[i].q) ELSE text[i]]
\* strings.Replace(text, "INDEXCOLUMNNAME", name, -1)
ReplaceName(text, name) ==
    [i \in 1..Len(text) |->
        IF text[i].w = "INDEXCOLUMNNAME" THEN W(name) ELSE text[i]]

\* the text appended at lines 243, 245, 249, 251
Suffix(kw, quoted) ==
    <<W(kw), W("INDEXCOLUMNNAME"), W(">"), P("STATEVALUE", quoted),
      W("order by"), W("INDEXCOLUMNNAME"), W("asc;")>>

\* ------------------------------------------------- getRecords, lines 227-255
\* Rewrite with the branch of line 230 lost: a query without a cursor column
\* falls through to the check of the cursor type
RewriteWithoutSnapshotBranch(dbquery) ==
    IF dbquery.Query = <<>>
    THEN [ret |-> TRUE, Query |-> dbquery.Query]
    ELSE IF dbquery.IndexColumnType = ""
    THEN [ret |-> TRUE, Query |-> dbquery.Query]
    ELSE IF dbquery.IndexColumnType \notin {"TIMESTAMP", "NUMBER"}
    THEN [ret |-> TRUE, Query |-> dbquery.Query]
    ELSE [ret |-> FALSE,
          Query |-> dbquery.Query \o
                    Suffix(IF Contains(dbquery.Query) THEN "and" ELSE "where",
                           dbquery.IndexColumnType = "TIMESTAMP")]

\* the checks on the configured query and the text appended for a cursor
\* query; ret is the early `return nil, nil`
Rewrite(dbquery) ==
    IF dbquery.Query = <<>>
    THEN [ret |-> TRUE, Query |-> dbquery.Query]
    ELSE IF dbquery.IndexColumnName = ""
    THEN [ret |-> FALSE, Query |-> dbquery.Query]
    ELSE IF dbquery.IndexColumnType = ""
    THEN [ret |-> TRUE, Query |-> dbquery.Query]
    ELSE IF dbquery.IndexColumnType \notin {"TIMESTAMP", "NUMBER"}
    THEN [ret |-> TRUE, Query |-> dbquery.Query]
    ELSE [ret |-> FALSE,
          Query |-> dbquery.Query \o
                    Suffix(IF Contains(dbquery.Query) THEN "and" ELSE "where",
                           dbquery.IndexColumnType = "TIMESTAMP")]

\* ------------------------------------------------------ the checkpoint store
\* the store maps a query id to the set holding its checkpoint, empty while
\* no checkpoint exists
GetState(dbquery, store) ==
    IF store[dbquery.QueryId] = {}
    THEN dbquery.InitialIndexColumnStartValue
    ELSE CHOOSE v \in store[dbquery.QueryId] : TRUE

SaveState(dbquery, v, store) == [store EXCEPT ![dbquery.QueryId] = {v}]

\* lines 271-273: the text handed to ExecuteQueryandFetchRecords; for a
\* snapshot query (line 257) the text as it stands
QueryToRun(dbquery, store) ==
    LET rw == Rewrite(dbquery) IN
    IF dbquery.IndexColumnName = ""
    THEN rw.Query
    ELSE ReplaceName(ReplaceState(rw.Query, GetState(dbquery, store)),
                     dbquery.IndexColumnName)

\* ------------------------------------------------- the database, line 301
\* c.client.Query(query): what the server makes of a query text
Tables == {"dept_manager", "nowhere_tbl"}
IsWhereKw(w) == w \in {"where", "WHERE", "Where"}

IsCursorClause(c, kw) ==
    /\ Len(c) = 7
    /\ c[1] = W(kw)
    /\ c[2].w \in ColSet
    /\ c[3] = W(">")
    /\ c[4].w = "#"
    /\ c[5] = W("order by")
    /\ c[6].w \in ColSet
    /\ c[7] = W("asc;")

HasFilter(text) ==
    /\ Len(text) >= 6
    /\ IsWhereKw(text[5].w)
    /\ text[6] = W("1=1")

\* the part of the text after the select list, the table and its filter
Clause(text) ==
    IF HasFilter(text) THEN SubSeq(text, 7, Len(text)) ELSE SubSeq(text, 5, Len(text))

\* the statement parses: a select, an optional filter, an optional cursor
\* clause joined with the keyword the grammar asks for, and nothing after
\* the semicolon (the DSN of line 190 does not enable multiStatements, so the
\* server refuses text that follows a semicolon)
WellFormed(text) ==
    /\ Len(text) >= 4
    /\ SubSeq(text, 1, 3) = <<W("Select"), W("*"), W("from")>>
    /\ text[4].w \in Tables
    /\ \/ Clause(text) = <<>>
       \/ IsCursorClause(Clause(text), IF HasFilter(text) THEN "and" ELSE "where")

\* the rows the statement selects from the table
Selected(text, tbl) ==
    IF Clause(text) = <<>>
    THEN tbl
    ELSE {r \in tbl : /\ r[ColIdx(Clause(text)[2].w)] # NullVal
                      /\ r[ColIdx(Clause(text)[2].w)] > Clause(text)[4].n}

\* the rows of S in ascending order of column number col
RECURSIVE InOrder(_, _)
InOrder(S, col) ==
    IF S = {}
    THEN <<>>
    ELSE LET r == CHOOSE x \in S : \A y \in S : x[col] <= y[col]
         IN <<r>> \o InOrder(S \ {r}, col)

\* the order the server returns them in: ascending in the order-by column
\* when there is one, else in the order of the primary key (the cursor
\* column), the order a scan of the table goes in
Results(text, tbl) ==
    IF Clause(text) = <<>>
    THEN {InOrder(Selected(text, tbl), ColIdx(PrimaryKey))}
    ELSE {InOrder(Selected(text, tbl), ColIdx(Clause(text)[6].w))}

\* ------------------------------ ExecuteQueryandFetchRecords, lines 300-377
\* lines 336-348: one scanned row; a NULL column sets value but appends nothing
ScanLine(row) == SelectSeq(row, LAMBDA col : col # NullVal)

\* lines 359-361: myjsonobject[columns[i]] = v for the values of one line;
\* myjsonobject is the one map made at line 355, so it keeps what an earlier
\* line left in it
Assign(myjsonobject, line) ==
    [k \in DOMAIN myjsonobject \cup {Columns[i] : i \in 1..Len(line)} |->
        IF ColIdx(k) <= Len(line) THEN line[ColIdx(k)] ELSE myjsonobject[k]]

\* json.Marshal of a map[string]string: the key/value pairs in key order
Marshal(obj) ==
    LET keys == SelectSeq(Columns, LAMBDA k : k \in DOMAIN obj)
    IN [i \in 1..Len(keys) |-> [k |-> keys[i], v |-> obj[keys[i]]]]

\* json.Unmarshal into a map[string]interface{}
Unmarshal(js) ==
    [k \in {js[i].k : i \in 1..Len(js)} |->
        (CHOOSE p \in {js[i] : i \in 1..Len(js)} : p.k = k).v]

\* line 368 with the ordinal counted from 0: strconv.Itoa(j)
RecordKeyFromZero(queryid, j) == [id |-> queryid, ord |-> j]

\* line 368: queryid + "_record" + strconv.Itoa(j+1), j counted from 0
RecordKey(queryid, j) == [id |-> queryid, ord |-> j + 1]
\* the empty string lastIndex starts as (line 357)
NoIndex == [id |-> "", ord |-> 0]

\* lines 355-375: the JSON text of every line, in line order
RECURSIVE EncodeLines(_, _, _)
EncodeLines(lines, j, myjsonobject) ==
    IF j > Len(lines)
    THEN <<>>
    ELSE LET obj == Assign(myjsonobject, lines[j])
         IN <<Marshal(obj)>> \o EncodeLines(lines, j + 1, obj)

EmptyMap == [k \in {} |-> NullVal]

\* the function returning before it has read a row
ExecuteReturningNothing(failed, rows, queryid) ==
    [records |-> EmptyMap, lastIndex |-> NoIndex]

\* the function with its error returns lost: the rows scanned before the
\* error are encoded and returned
ExecuteIgnoringErrors(failed, rows, queryid) ==
    LET lines == [i \in 1..Len(rows) |-> ScanLine(rows[i])]
        json  == EncodeLines(lines, 1, EmptyMap)
    IN [records |-> [key \in {RecordKey(queryid, j - 1) : j \in 1..Len(json)} |->
                        json[CHOOSE j \in 1..Len(json) :
                                RecordKey(queryid, j - 1) = key]],
        lastIndex |-> IF Len(json) = 0 THEN NoIndex
                      ELSE RecordKey(queryid, Len(json) - 1)]

\* the whole function; failed stands for an error of Query, Columns, Scan or
\* rows.Err, every one of which returns nil, "", nil; rows are the rows
\* scanned, before the error if there is one
ExecuteQueryandFetchRecords(failed, rows, queryid) ==
    IF failed
    THEN [records |-> EmptyMap, lastIndex |-> NoIndex]
    ELSE LET lines == [i \in 1..Len(rows) |-> ScanLine(rows[i])]
             json  == EncodeLines(lines, 1, EmptyMap)
         IN [records |-> [key \in {RecordKey(queryid, j - 1) : j \in 1..Len(json)} |->
                             json[CHOOSE j \in 1..Len(json) :
                                     RecordKey(queryid, j - 1) = key]],
             lastIndex |-> IF Len(json) = 0 THEN NoIndex
                           ELSE RecordKey(queryid, Len(json) - 1)]

\* ------------------------------------------------- getRecords, lines 225-298
\* failed and rows are what the database answers to the text QueryToRun gives.
\* The result: the records returned, the text left in dbquery.Query, the
\* store, and whether line 293 panicked (the type assertion on a key the
\* record does not hold).
getRecords(dbquery, store, failed, rows) ==
    LET rw   == Rewrite(dbquery)
        text == QueryToRun(dbquery, store)
        res  == ExecuteQueryandFetchRecords(failed, rows, dbquery.QueryId)
        last == Unmarshal(res.records[res.lastIndex])
    IN IF rw.ret
       THEN [records |-> EmptyMap, Query |-> rw.Query, store |-> store,
             ran |-> FALSE, panic |-> FALSE]
       ELSE IF dbquery.IndexColumnName = ""
       THEN [records |-> res.records, Query |-> rw.Query, store |-> store,
             ran |-> TRUE, panic |-> FALSE]
       ELSE IF res.records = EmptyMap
       THEN [records |-> res.records, Query |-> text, store |-> store,
             ran |-> TRUE, panic |-> FALSE]
       ELSE IF dbquery.IndexColumnName \notin DOMAIN last
       THEN [records |-> res.records, Query |-> text, store |-> store,
             ran |-> TRUE, panic |-> TRUE]
       ELSE [records |-> res.records, Query |-> text,
             store |-> SaveState(dbquery, last[dbquery.IndexColumnName], store),
             ran |-> TRUE, panic |-> FALSE]

\* ------------------------------------------ newMySQLClient, lines 133-196
\* Strings of the configuration: the plaintext password, its ciphertext under
\* the key of the secret file, the token the credential service issues
Plaintext  == "pw"
Ciphertext == "enc(pw)"
Token      == "token"

\* Encrypt and Decrypt with the secret read from the file; err says the call
\* failed, and a failed call returns the empty string with its error
Encrypt(text, err) == IF err THEN "" ELSE IF text = Plaintext THEN Ciphertext ELSE "enc(enc(pw))"
Decrypt(text, err) == IF err THEN "" ELSE Plaintext

\* the configurations newMySQLClient and Connect are given
LimitValues == {-1, 0, 2}
ClientConfigs ==
    {[PasswordType |-> t,
      Password |-> IF t = "encrypted" THEN Ciphertext ELSE Plaintext,
      EncryptSecretPath |-> path,
      AuthenticationMode |-> mode,
      SetConnMaxLifetime |-> life,
      SetMaxOpenConns |-> open,
      SetMaxIdleConns |-> idle] :
     t \in {"", "plaintext", "encrypted"}, path \in {"", "secret.txt"},
     mode \in {"BasicAuth", "IAMRDSAuth"},
     life \in LimitValues, open \in LimitValues, idle \in LimitValues}

\* the configuration of the example: encrypted password, limits 3, 10, 10
ExampleConfig ==
    [PasswordType |-> "encrypted", Password |-> Ciphertext,
     EncryptSecretPath |-> "secret.txt", AuthenticationMode |-> "BasicAuth",
     SetConnMaxLifetime |-> 3, SetMaxOpenConns |-> 10, SetMaxIdleConns |-> 10]

\* what the calls newMySQLClient makes may answer: an error of readMySecret,
\* of Encrypt or Decrypt, of the token service, of the reading of the pem file
Environments == [secret : BOOLEAN, crypt : BOOLEAN, token : BOOLEAN, pem : BOOLEAN]
NoErrors == [secret |-> FALSE, crypt |-> FALSE, token |-> FALSE, pem |-> FALSE]

\* line 139: a plaintext password and a path to the secret file
WantsHint(conf) ==
    conf.PasswordType \in {"", "plaintext"} /\ conf.EncryptSecretPath # ""

\* the errors newMySQLClient logs (lines 142, 146, 154, 158, 104-107, 119-124);
\* a key that could not be read makes Encrypt and Decrypt fail too
Logged(conf, e) ==
    (IF WantsHint(conf) /\ e.secret THEN {"HintSecretUnavailable"} ELSE {})
    \cup (IF WantsHint(conf) /\ (e.secret \/ e.crypt) THEN {"HintEncryptFailed"} ELSE {})
    \cup (IF conf.PasswordType = "encrypted" /\ e.secret THEN {"SecretUnavailable"} ELSE {})
    \cup (IF conf.PasswordType = "encrypted" /\ (e.secret \/ e.crypt)
          THEN {"DecryptionFailed"} ELSE {})
    \cup (IF conf.AuthenticationMode = "IAMRDSAuth" /\ e.token
          THEN {"TokenIssuanceFailed"} ELSE {})
    \cup (IF conf.AuthenticationMode = "IAMRDSAuth" /\ e.pem
          THEN {"TrustStoreInvalid"} ELSE {})

\* newMySQLClient with the ciphertext of the hint taken for the password
driverConfWithHint(conf, e) ==
    LET encText == Encrypt(conf.Password, e.secret \/ e.crypt)
        decText == Decrypt(conf.Password, e.secret \/ e.crypt)
        basicauthpassword ==
            IF conf.PasswordType = "encrypted" THEN decText
            ELSE IF WantsHint(conf) THEN encText
            ELSE conf.Password
    IN IF conf.AuthenticationMode = "IAMRDSAuth"
       THEN [Passwd |-> IF e.token THEN "" ELSE Token, TLSConfig |-> "custom",
             RootCAs |-> IF e.pem THEN "empty" ELSE "bundle"]
       ELSE [Passwd |-> basicauthpassword, TLSConfig |-> "", RootCAs |-> ""]

\* the mysql.Config newMySQLClient formats into connStr
driverConf(conf, e) ==
    LET decText == Decrypt(conf.Password, e.secret \/ e.crypt)
        basicauthpassword ==
            IF conf.PasswordType = "encrypted" THEN decText ELSE conf.Password
    IN IF conf.AuthenticationMode = "IAMRDSAuth"
       THEN [Passwd |-> IF e.token THEN "" ELSE Token, TLSConfig |-> "custom",
             RootCAs |-> IF e.pem THEN "empty" ELSE "bundle"]
       ELSE [Passwd |-> basicauthpassword, TLSConfig |-> "", RootCAs |-> ""]

\* ------------------------------------------------- Connect, lines 198-222
DefaultConnMaxLifetime == 3
DefaultMaxOpenConns == 5
DefaultMaxIdleConns == 5

\* the limits Connect sets on the handle it opened; every one of the three
\* tests is on SetConnMaxLifetime (lines 205, 210, 215)
ConnectLimits(conf) ==
    [lifetime |-> IF conf.SetConnMaxLifetime # 0 THEN conf.SetConnMaxLifetime
                  ELSE DefaultConnMaxLifetime,
     open |-> IF conf.SetConnMaxLifetime # 0 THEN conf.SetMaxOpenConns
              ELSE DefaultMaxOpenConns,
     idle |-> IF conf.SetConnMaxLifetime # 0 THEN conf.SetMaxIdleConns
              ELSE DefaultMaxIdleConns]

\* ------------------------------------------------------------------- state
VARIABLES
    conf,       \* the configured DBQueries, by query id
    byValue,    \* getRecords takes a *DBQueries: its caller hands it a pointer
                \* to a copy of the configured struct (TRUE) or to the stored
                \* struct itself (FALSE); what it writes to dbquery.Query
                \* outlives the call only in the second case
    DBQueries,  \* the stored DBQueries structs getRecords is given
    state,      \* the checkpoint store
    table,      \* the rows of the source table
    pc,         \* "idle", "deliver" (a batch is with the controller), "crashed"
    ticks,      \* ticks so far
    cur,        \* the query of the last tick
    executed,   \* the text the last tick executed, <<>> if it executed none
    batch,      \* the rows of the result the last tick read to its end, in
                \* order; none if it read none or met an error
    records,    \* the records getRecords returned in the last tick
    before,     \* the store entry of cur when the last tick began
    retries,    \* retries of the batch so far
    outcome,    \* how the last tick and its batch ended: "skipped", "failed",
                \* "empty", "panic", "pending", "delivered", "exhausted",
                \* "permanent"
    delivered,  \* by query: the cursor values of the rows delivered so far
    inOrder,    \* whether the records of the last batch delivered reached
                \* the consumer in the order of their ordinals
    config,     \* the *Config newMySQLClient is given
    stage,      \* "config" before newMySQLClient has run, "built" after,
                \* "shutdown" once the receiver has been shut down
    errs,       \* the errors newMySQLClient logged
    connStr,    \* mySQLClient.connStr, as the mysql.Config it was formatted from
    opened,     \* the handles sql.Open has returned to Connect, in order, each
                \* with the limits set on it and the number of times its
                \* Close was called
    client,     \* mySQLClient.client: the index in opened of the handle it
                \* holds, 0 for nil
    workers,    \* the worker pool: the query each worker holds, where it
                \* stands in getRecords, the checkpoint it read
    queue,      \* the queries of the current tick no worker has taken yet
    registrationInfo,   \* SumologicExtension.registrationInfo
    closeChan,          \* se.closeChan: "open" or "closed"
    closeOnce,          \* se.closeOnce: whether its Do has run its function
    closes,             \* the times close(se.closeChan) was executed
    calls,              \* the calls of Shutdown: where each stands, whether
                        \* its context is cancelled, what it returned
    started,            \* what Start returned: "none" before it has, "nil", "error"
    answer,             \* what the call of register met
    loop,               \* where the goroutine of heartbeatLoop stands
    timer,              \* whether the time.After of line 207 has fired
    heartbeats,         \* heartbeat requests started, counted up to MaxHeartbeats
    sentAfterClose,     \* those of them started after closeChan was closed
    startedAfterClose   \* whether heartbeatLoop began after closeChan was closed

workVars == <<workers, queue>>
pollVars == <<conf, byValue, DBQueries, state, table, pc, ticks, cur, executed, batch,
              records, before, retries, outcome, delivered, inOrder,
              workers, queue>>
clientVars == <<config, stage, errs, connStr, opened, client>>
extVars == <<registrationInfo, closeChan, closeOnce, closes, calls, started, answer, loop,
             timer, heartbeats, sentAfterClose, startedAfterClose>>
vars == <<pollVars, clientVars, extVars>>

CursorCol == "emp_no"

Snapshot(id, text) ==
    [QueryId |-> id, Query |-> text, IndexColumnName |-> "",
     IndexColumnType |-> "", InitialIndexColumnStartValue |-> 0]
Incremental(id, text, type) ==
    [QueryId |-> id, Query |-> text, IndexColumnName |-> CursorCol,
     IndexColumnType |-> type, InitialIndexColumnStartValue |-> 1]

\* the well-formed configurations: Q1 a snapshot query, Q2 a cursor query
WellFormedConfigs ==
    {[id \in QueryIds |->
        IF id = "Q1" THEN Snapshot("Q1", SelectFrom("dept_manager"))
        ELSE Incremental("Q2", text, type)] :
     text \in {SelectFrom("dept_manager"),
               SelectFrom("dept_manager") \o Filter("where")},
     type \in {"NUMBER", "TIMESTAMP"}}

\* a QuerySpec whose cursor fields contradict each other
Malformed(dbquery) ==
    \/ dbquery.IndexColumnName # "" /\ dbquery.IndexColumnType = ""
    \/ dbquery.IndexColumnName = "" /\ dbquery.IndexColumnType # ""
    \/ dbquery.IndexColumnType \notin {"", "TIMESTAMP", "NUMBER"}

\* configurations whose Q2 is malformed: a cursor column without a type or
\* with a type that is not supported, a type without a cursor column
MalformedConfigs ==
    {[id \in QueryIds |->
        IF id = "Q1" THEN Snapshot("Q1", SelectFrom("dept_manager"))
        ELSE [Incremental("Q2", SelectFrom("dept_manager"), f.type)
                 EXCEPT !.IndexColumnName = f.name]] :
     f \in {[name |-> CursorCol, type |-> ""],
            [name |-> CursorCol, type |-> "STRING"],
            [name |-> "", type |-> "NUMBER"]}}

\* the polling engine before its first tick, configured with one of cs and
\* called in one of the ways of callers
MaxWorkers == 2     \* the size of the worker pool

IdleWorker == [id |-> "", pc |-> "idle", seen |-> {}]

PollInit(cs, callers) ==
    /\ conf \in cs
    /\ byValue \in callers
    /\ DBQueries = conf
    /\ state = [id \in QueryIds |-> {}]
    /\ table = InitialRows
    /\ pc = "idle"
    /\ ticks = 0
    /\ cur = ""
    /\ executed = <<>>
    /\ batch = <<>>
    /\ records = EmptyMap
    /\ before = {}
    /\ retries = 0
    /\ outcome = "none"
    /\ delivered = [id \in QueryIds |-> {}]
    /\ inOrder = TRUE
    /\ workers = [w \in 1..MaxWorkers |-> IdleWorker]
    /\ queue = {}

\* ------------------------------------------ the extension, extension.go
MaxShutdowns  == 2      \* calls of Shutdown
MaxHeartbeats == 2      \* heartbeat requests that are counted

NoRegistration == [CollectorCredentialId |-> "", CollectorId |-> ""]

\* no response to the request of register
NoResponse == [response |-> FALSE, code |-> 0, body |-> NoRegistration, readable |-> FALSE]

\* newSumologicExtension (lines 59-65): nothing registered, the channel made,
\* no call of Start or Shutdown yet
ExtInit ==
    /\ registrationInfo = NoRegistration
    /\ closeChan = "open"
    /\ closeOnce = FALSE
    /\ closes = 0
    /\ calls = [s \in 1..MaxShutdowns |-> [pc |-> "idle", cancelled |-> FALSE, result |-> "none"]]
    /\ started = "none"
    /\ answer = NoResponse
    /\ loop = "notStarted"
    /\ timer = FALSE
    /\ heartbeats = 0
    /\ sentAfterClose = 0
    /\ startedAfterClose = FALSE

NilHandle == 0
Handle(c) == [limits |-> ConnectLimits(c), closes |-> 0]

\* the receiver polls with the client of the example configuration, built
\* and connected
Init ==
    /\ PollInit(WellFormedConfigs, BOOLEAN)
    /\ config = ExampleConfig
    /\ stage = "built"
    /\ errs = {}
    /\ connStr = driverConf(ExampleConfig, NoErrors)
    /\ opened = <<Handle(ExampleConfig)>>
    /\ client = 1
    /\ ExtInit

\* a row appears in the source table, with the next value of the primary
\* key; rows inserted after the last tick of the run are seen by nobody
Insert(row) ==
    /\ pc = "idle"
    /\ ticks < MaxTicks
    /\ Cardinality(table) < MaxRows + Cardinality(InitialRows)
    /\ row[ColIdx(PrimaryKey)] = Cardinality(table) + 1
    /\ table' = table \cup {row}
    /\ UNCHANGED <<conf, byValue, DBQueries, state, pc, ticks, cur, executed, batch, records,
                   before, retries, outcome, delivered, inOrder>>
    /\ UNCHANGED clientVars
    /\ UNCHANGED extVars
    /\ UNCHANGED workVars

\* what the database answers to a text: an error of Query or Columns (the
\* only answer to a text that does not parse), the rows of the result, or
\* some of them and then an error of Scan or rows.Err
Answers(text) ==
    {[failed |-> TRUE, rows |-> <<>>]} \cup
    (IF WellFormed(text)
     THEN UNION {{[failed |-> FALSE, rows |-> rows]} \cup
                 {[failed |-> TRUE, rows |-> SubSeq(rows, 1, n)] : n \in 0..Len(rows)} :
                    rows \in Results(text, table)}
     ELSE {})

\* one polling tick of query id: getRecords, then the batch goes to delivery;
\* mayFail says whether the database may answer with an error
Poll(id, mayFail) ==
    /\ pc = "idle"
    /\ ticks < MaxTicks
    /\ \E dbquery \in {IF byValue THEN conf[id] ELSE DBQueries[id]} :
       \E text \in {QueryToRun(dbquery, state)} :
       \E db \in {a \in Answers(text) : mayFail \/ ~a.failed} :
       \E r \in {getRecords(dbquery, state, db.failed, db.rows)} :
          /\ DBQueries' = IF byValue THEN DBQueries
                          ELSE [DBQueries EXCEPT ![id].Query = r.Query]
          /\ state' = r.store
          /\ executed' = IF r.ran THEN text ELSE <<>>
          /\ batch' = IF r.ran /\ ~db.failed THEN db.rows ELSE <<>>
          /\ records' = IF r.panic THEN EmptyMap ELSE r.records
          /\ pc' = IF r.panic THEN "crashed"
                   ELSE IF DOMAIN r.records = {} THEN "idle" ELSE "deliver"
          /\ outcome' = IF r.panic THEN "panic"
                        ELSE IF ~r.ran THEN "skipped"
                        ELSE IF db.failed THEN "failed"
                        ELSE IF DOMAIN r.records = {} THEN "empty" ELSE "pending"
    /\ cur' = id
    /\ before' = state[id]
    /\ retries' = 0
    /\ ticks' = ticks + 1
    /\ inOrder' = TRUE
    /\ UNCHANGED <<conf, byValue, table, delivered>>
    /\ UNCHANGED clientVars
    /\ UNCHANGED extVars
    /\ UNCHANGED workVars

\* a tick against a database that may fail
Tick(id) == Poll(id, TRUE)

\* ------------------------------------------------- delivery of the batch
\* the cursor values of the rows of the batch (none for a snapshot query)
BatchCursors ==
    IF conf[cur].IndexColumnName = "" THEN {}
    ELSE {batch[i][ColIdx(conf[cur].IndexColumnName)] : i \in 1..Len(batch)}

\* the orders in which `for key, element := range m` may visit the keys of a
\* map[string]string: the language leaves the order open, so every one
RangeOrders(keys) ==
    {f \in [1..Cardinality(keys) -> keys] :
        \A i, j \in 1..Cardinality(keys) : f[i] = f[j] => i = j}

\* record i comes before record i+1, for every i
Ascending(handed) ==
    \A i \in 1..Len(handed) - 1 : handed[i].ord < handed[i + 1].ord

\* the downstream consumer accepts the batch; the records of the map
\* getRecords returned reach it in the order a range over the map gives
DeliverOk ==
    /\ pc = "deliver"
    /\ inOrder' \in {Ascending(handed) : handed \in RangeOrders(DOMAIN records)}
    /\ delivered' = [delivered EXCEPT ![cur] = @ \cup BatchCursors]
    /\ outcome' = "delivered"
    /\ pc' = "idle"
    /\ UNCHANGED <<conf, byValue, DBQueries, state, table, ticks, cur, executed, batch, records,
                   before, retries>>
    /\ UNCHANGED clientVars
    /\ UNCHANGED extVars
    /\ UNCHANGED workVars

\* the consumer fails transiently: retry while retries remain, else drop
DeliverTransient ==
    /\ pc = "deliver"
    /\ IF retries < ConsumeMaxRetries
       THEN /\ retries' = retries + 1
            /\ UNCHANGED <<pc, outcome>>
       ELSE /\ outcome' = "exhausted"
            /\ pc' = "idle"
            /\ UNCHANGED retries
    /\ UNCHANGED <<conf, byValue, DBQueries, state, table, ticks, cur, executed, batch, records,
                   before, delivered, inOrder>>
    /\ UNCHANGED clientVars
    /\ UNCHANGED extVars
    /\ UNCHANGED workVars

\* the consumer fails permanently: drop at once
DeliverPermanent ==
    /\ pc = "deliver"
    /\ outcome' = "permanent"
    /\ pc' = "idle"
    /\ UNCHANGED <<conf, byValue, DBQueries, state, table, ticks, cur, executed, batch, records,
                   before, retries, delivered, inOrder>>
    /\ UNCHANGED clientVars
    /\ UNCHANGED extVars
    /\ UNCHANGED workVars

Next ==
    \/ \E row \in RowSpace : Insert(row)
    \/ \E id \in QueryIds : Tick(id)
    \/ DeliverOk
    \/ DeliverTransient
    \/ DeliverPermanent

Spec == Init /\ [][Next]_vars

\* newMySQLClient keeps the Config it is given as it is (line 193), so a
\* malformed configuration gets its client like any other, and the receiver
\* polls with it
StartupInit ==
    /\ PollInit(MalformedConfigs, BOOLEAN)
    /\ config = ExampleConfig
    /\ stage = "built"
    /\ errs = {}
    /\ connStr = driverConf(ExampleConfig, NoErrors)
    /\ opened = <<Handle(ExampleConfig)>>
    /\ client = 1
    /\ ExtInit

StartupSpec == StartupInit /\ [][Next]_vars

\* configurations whose cursor query names either table and carries no filter
\* clause or one in any spelling of its keyword
KeywordTexts ==
    {SelectFrom(tbl) : tbl \in Tables} \cup
    {SelectFrom(tbl) \o Filter(kw) : tbl \in Tables, kw \in {"where", "WHERE", "Where"}}

KeywordConfigs ==
    {[id \in QueryIds |->
        IF id = "Q1" THEN Snapshot("Q1", SelectFrom("dept_manager"))
        ELSE Incremental("Q2", text, "NUMBER")] : text \in KeywordTexts}

KeywordInit ==
    /\ PollInit(KeywordConfigs, {TRUE})
    /\ config = ExampleConfig
    /\ stage = "built"
    /\ errs = {}
    /\ connStr = driverConf(ExampleConfig, NoErrors)
    /\ opened = <<Handle(ExampleConfig)>>
    /\ client = 1
    /\ ExtInit

KeywordSpec == KeywordInit /\ [][Next]_vars

\* ------------------------------------- TestMySQLReceiverIntegration, 33-73
\* the receiver is started with its one snapshot query Q1 against a database
\* that answers, and its consumer is a sink that accepts every batch
Scrape ==
    /\ stage = "built"
    /\ Poll("Q1", FALSE)

\* receiver.Shutdown, called once the sink holds logs (lines 59-72): no
\* further tick, and the client is closed
ReceiverShutdown ==
    /\ stage = "built"
    /\ pc = "idle"
    /\ outcome = "delivered"
    /\ stage' = "shutdown"
    /\ opened' = [opened EXCEPT ![client].closes = @ + 1]
    /\ UNCHANGED <<config, errs, connStr, client, pollVars>>
    /\ UNCHANGED extVars

\* the receiver the test builds: one configuration, the client connected
IntegrationInit ==
    /\ PollInit({CHOOSE c \in WellFormedConfigs : TRUE}, {TRUE})
    /\ config = ExampleConfig
    /\ stage = "built"
    /\ errs = {}
    /\ connStr = driverConf(ExampleConfig, NoErrors)
    /\ opened = <<Handle(ExampleConfig)>>
    /\ client = 1
    /\ ExtInit

IntegrationNext ==
    \/ \E row \in RowSpace : Insert(row)
    \/ Scrape
    \/ DeliverOk
    \/ ReceiverShutdown

\* the collection interval keeps the ticks coming, the sink answers every
\* batch, and the test goes on to its call of ReceiverShutdown
IntegrationSpec ==
    /\ IntegrationInit
    /\ [][IntegrationNext]_vars
    /\ WF_vars(Scrape)
    /\ WF_vars(DeliverOk)
    /\ WF_vars(ReceiverShutdown)

\* --------------------------------------------- the client and its handle
MaxConnects == 2    \* calls of Connect that open a handle
MaxCloses   == 2    \* calls of Close on one handle

\* a client is to be built from any of the configurations; nothing polls
ClientInit ==
    /\ PollInit({CHOOSE c \in WellFormedConfigs : TRUE}, {TRUE})
    /\ config \in ClientConfigs
    /\ stage = "config"
    /\ errs = {}
    /\ connStr = driverConf(ExampleConfig, NoErrors)
    /\ opened = <<>>
    /\ client = NilHandle
    /\ ExtInit

\* newMySQLClient(conf, logger): every error is logged and the client is
\* returned all the same (there is no return but that of line 191)
newMySQLClient ==
    /\ stage = "config"
    /\ \E e \in Environments :
          /\ connStr' = driverConf(config, e)
          /\ errs' = Logged(config, e)
    /\ stage' = "built"
    /\ UNCHANGED <<config, opened, client, pollVars>>
    /\ UNCHANGED extVars

\* c.Connect(): sql.Open fails and c.client stays as it is, or it returns a
\* new handle, which gets its limits and is stored in c.client
Connect ==
    /\ stage = "built"
    /\ Len(opened) < MaxConnects
    /\ \E failed \in BOOLEAN :
          IF failed
          THEN UNCHANGED <<opened, client>>
          ELSE /\ opened' = Append(opened, Handle(config))
               /\ client' = Len(opened) + 1
    /\ UNCHANGED <<config, stage, errs, connStr, pollVars>>
    /\ UNCHANGED extVars

\* c.Close(): closes the handle c.client holds, if it holds one; c.client
\* keeps the handle
Close ==
    /\ stage = "built"
    /\ IF client = NilHandle
       THEN UNCHANGED opened
       ELSE /\ opened[client].closes < MaxCloses
            /\ opened' = [opened EXCEPT ![client].closes = @ + 1]
    /\ UNCHANGED <<config, stage, errs, connStr, client, pollVars>>
    /\ UNCHANGED extVars

ClientNext ==
    \/ newMySQLClient
    \/ Connect
    \/ Close

ClientSpec == ClientInit /\ [][ClientNext]_vars

\* ------------------------------------ the extension's Start and Shutdown
\* The receiver and the client stand still while the extension runs.
ExtensionInit ==
    /\ PollInit({CHOOSE c \in WellFormedConfigs : TRUE}, {TRUE})
    /\ config = ExampleConfig
    /\ stage = "built"
    /\ errs = {}
    /\ connStr = driverConf(ExampleConfig, NoErrors)
    /\ opened = <<Handle(ExampleConfig)>>
    /\ client = 1
    /\ ExtInit

\* the statuses the register API answers with, around the test of line 158
StatusCodes == {199, 200, 399, 400}

\* the payloads the register API answers with
Payloads == [CollectorCredentialId : {"", "cred"}, CollectorId : {"", "id"}]

\* what a call of register meets: an error before any response (lines
\* 115-154), or a response with its status, its payload and whether its body
\* can be read
RegisterAnswers ==
    {NoResponse} \cup [response : {TRUE}, code : StatusCodes, body : Payloads, readable : BOOLEAN]

\* line 158
Refused(code) == code < 200 \/ code >= 400

\* register(ctx), lines 114-186: the error it returns ("nil" for none) and the
\* registrationInfo it leaves
register(a, info) ==
    IF ~a.response THEN [err |-> "error", info |-> info]
    ELSE IF Refused(a.code)
         THEN [err |-> IF a.readable THEN "nil" ELSE "error", info |-> info]
         ELSE IF ~a.readable THEN [err |-> "error", info |-> info]
              ELSE [err |-> "nil", info |-> a.body]

\* Start(ctx, host), lines 68-76: the goroutine of heartbeatLoop is started
\* unless register returned an error
Start ==
    /\ started = "none"
    /\ \E a \in RegisterAnswers :
         LET r == register(a, registrationInfo) IN
         /\ registrationInfo' = r.info
         /\ answer' = a
         /\ started' = r.err
         /\ loop' = IF r.err = "nil" THEN "started" ELSE loop
    /\ UNCHANGED <<closeChan, closeOnce, closes, calls, timer, heartbeats,
                   sentAfterClose, startedAfterClose, pollVars, clientVars>>

\* a call of Shutdown(ctx) begins, its context cancelled or not
ShutdownCalled(s) ==
    /\ calls[s].pc = "idle"
    /\ \E cancelled \in BOOLEAN :
         calls' = [calls EXCEPT ![s] = [pc |-> "once", cancelled |-> cancelled, result |-> "none"]]
    /\ UNCHANGED <<registrationInfo, closeChan, closeOnce, closes, started, answer, loop,
                   timer, heartbeats, sentAfterClose, startedAfterClose, pollVars, clientVars>>

\* sync.Once.Do runs its function for the first call only
RunsEveryTime(once) == TRUE
Runs(once) == ~once

\* se.closeOnce.Do(func() { close(se.closeChan) }), line 80: closing a closed
\* channel panics
ShutdownOnce(s) ==
    /\ calls[s].pc = "once"
    /\ IF Runs(closeOnce)
       THEN /\ closes' = closes + 1
            /\ closeChan' = "closed"
            /\ calls' = [calls EXCEPT ![s].pc = IF closeChan = "closed" THEN "panic" ELSE "select"]
       ELSE /\ calls' = [calls EXCEPT ![s].pc = "select"]
            /\ UNCHANGED <<closes, closeChan>>
    /\ closeOnce' = TRUE
    /\ UNCHANGED <<registrationInfo, started, answer, loop, timer, heartbeats,
                   sentAfterClose, startedAfterClose, pollVars, clientVars>>

\* the select of lines 81-86
ShutdownReturns(s) ==
    /\ calls[s].pc = "select"
    /\ calls' = [calls EXCEPT ![s].pc = "returned",
                              ![s].result = IF calls[s].cancelled THEN "ctx.Err" ELSE "nil"]
    /\ UNCHANGED <<registrationInfo, closeChan, closeOnce, closes, started, answer, loop,
                   timer, heartbeats, sentAfterClose, startedAfterClose, pollVars, clientVars>>

\* line 189
RegisteredWhatever(info) == FALSE
Unregistered(info) == info.CollectorCredentialId = "" \/ info.CollectorId = ""

\* heartbeatLoop begins, lines 188-194
heartbeatLoop ==
    /\ loop = "started"
    /\ loop' = IF Unregistered(registrationInfo) THEN "done" ELSE "select"
    /\ startedAfterClose' = (closeChan = "closed")
    /\ UNCHANGED <<registrationInfo, closeChan, closeOnce, closes, calls, started, answer,
                   timer, heartbeats, sentAfterClose, pollVars, clientVars>>

\* a receive from se.closeChan is ready once the channel is closed
NeverReady(ch) == FALSE
Ready(ch) == ch = "closed"

\* the select of lines 196-200: default is taken only while the receive from
\* closeChan is not ready
heartbeatSelect ==
    /\ loop = "select"
    /\ loop' = IF Ready(closeChan) THEN "done" ELSE "default"
    /\ UNCHANGED <<registrationInfo, closeChan, closeOnce, closes, calls, started, answer,
                   timer, heartbeats, sentAfterClose, startedAfterClose, pollVars, clientVars>>

Counted(n) == IF n < MaxHeartbeats THEN n + 1 ELSE n

\* sendHeartbeat is called (line 201) and its request sent (line 229)
sendHeartbeat ==
    /\ loop = "default"
    /\ loop' = "sending"
    /\ heartbeats' = Counted(heartbeats)
    /\ sentAfterClose' = IF closeChan = "closed" THEN Counted(sentAfterClose) ELSE sentAfterClose
    /\ UNCHANGED <<registrationInfo, closeChan, closeOnce, closes, calls, started, answer,
                   timer, startedAfterClose, pollVars, clientVars>>

\* the request returns, with an error or without (lines 230-247, 202-205),
\* and the wait of line 206 begins
heartbeatReturns ==
    /\ loop = "sending"
    /\ loop' = "wait"
    /\ timer' = FALSE
    /\ UNCHANGED <<registrationInfo, closeChan, closeOnce, closes, calls, started, answer,
                   heartbeats, sentAfterClose, startedAfterClose, pollVars, clientVars>>

\* time.After(se.conf.HeartBeatInterval) fires, line 207
TimerFires ==
    /\ loop = "wait"
    /\ ~timer
    /\ timer' = TRUE
    /\ UNCHANGED <<registrationInfo, closeChan, closeOnce, closes, calls, started, answer,
                   loop, heartbeats, sentAfterClose, startedAfterClose, pollVars, clientVars>>

\* the select of lines 206-209 ends when either receive is ready
heartbeatWait ==
    /\ loop = "wait"
    /\ timer \/ Ready(closeChan)
    /\ loop' = "select"
    /\ UNCHANGED <<registrationInfo, closeChan, closeOnce, closes, calls, started, answer,
                   timer, heartbeats, sentAfterClose, startedAfterClose, pollVars, clientVars>>

ExtensionNext ==
    \/ Start
    \/ \E s \in 1..MaxShutdowns : ShutdownCalled(s)
    \/ \E s \in 1..MaxShutdowns : ShutdownOnce(s)
    \/ \E s \in 1..MaxShutdowns : ShutdownReturns(s)
    \/ heartbeatLoop
    \/ heartbeatSelect
    \/ sendHeartbeat
    \/ heartbeatReturns
    \/ TimerFires
    \/ heartbeatWait

\* The goroutine of heartbeatLoop is scheduled and each request returns; the
\* timer is not required to fire.
ExtensionSpec ==
    /\ ExtensionInit
    /\ [][ExtensionNext]_vars
    /\ WF_vars(heartbeatLoop)
    /\ WF_vars(heartbeatSelect)
    /\ WF_vars(sendHeartbeat)
    /\ WF_vars(heartbeatReturns)
    /\ WF_vars(heartbeatWait)

\* ------------------------------------------------------ the worker pool
\* The scheduler hands the queries of a tick to the workers of the pool; a
\* worker runs getRecords for its query, the read of the checkpoint (line
\* 271) and its write (line 294) being separate steps.
WorkerInit ==
    /\ PollInit(WellFormedConfigs, {TRUE})
    /\ config = ExampleConfig
    /\ stage = "built"
    /\ errs = {}
    /\ connStr = driverConf(ExampleConfig, NoErrors)
    /\ opened = <<Handle(ExampleConfig)>>
    /\ client = 1
    /\ ExtInit

\* the scheduler starts a tick when the work of the tick before is done
TickAnyTime(q, ws) == TRUE
TickDone(q, ws) == q = {} /\ \A w \in DOMAIN ws : ws[w].pc = "idle"

Dispatch ==
    /\ pc = "idle"
    /\ ticks < MaxTicks
    /\ TickDone(queue, workers)
    /\ queue' = queue \cup QueryIds
    /\ ticks' = ticks + 1
    /\ UNCHANGED <<conf, byValue, DBQueries, state, table, pc, cur, executed, batch, records,
                   before, retries, outcome, delivered, inOrder, workers, clientVars, extVars>>

\* an idle worker takes a query of the tick
Take(w, id) ==
    /\ pc = "idle"
    /\ workers[w].pc = "idle"
    /\ id \in queue
    /\ queue' = queue \ {id}
    /\ workers' = [workers EXCEPT ![w] = [id |-> id, pc |-> "read", seen |-> {}]]
    /\ UNCHANGED <<conf, byValue, DBQueries, state, table, pc, ticks, cur, executed, batch,
                   records, before, retries, outcome, delivered, inOrder, clientVars, extVars>>

\* GetState, line 271
ReadCheckpoint(w) ==
    /\ pc = "idle"
    /\ workers[w].pc = "read"
    /\ workers' = [workers EXCEPT ![w].pc = "write", ![w].seen = state[workers[w].id]]
    /\ UNCHANGED <<conf, byValue, DBQueries, state, table, pc, ticks, cur, executed, batch,
                   records, before, retries, outcome, delivered, inOrder, queue, clientVars,
                   extVars>>

\* the fetch with the checkpoint that was read, and SaveState, lines 272-294
WriteCheckpoint(w) ==
    /\ pc = "idle"
    /\ workers[w].pc = "write"
    /\ \E id \in {workers[w].id} :
       \E store \in {[state EXCEPT ![id] = workers[w].seen]} :
       \E text \in {QueryToRun(conf[id], store)} :
       \E db \in Answers(text) :
       \E r \in {getRecords(conf[id], store, db.failed, db.rows)} :
          /\ state' = IF r.store = store THEN state
                      ELSE [state EXCEPT ![id] = r.store[id]]
          /\ pc' = IF r.panic THEN "crashed" ELSE pc
          /\ cur' = id
    /\ workers' = [workers EXCEPT ![w] = IdleWorker]
    /\ UNCHANGED <<conf, byValue, DBQueries, table, ticks, executed, batch, records, before,
                   retries, outcome, delivered, inOrder, queue, clientVars, extVars>>

WorkerNext ==
    \/ \E row \in RowSpace : Insert(row)
    \/ Dispatch
    \/ \E w \in 1..MaxWorkers, id \in QueryIds : Take(w, id)
    \/ \E w \in 1..MaxWorkers : ReadCheckpoint(w)
    \/ \E w \in 1..MaxWorkers : WriteCheckpoint(w)

WorkerSpec == WorkerInit /\ [][WorkerNext]_vars

\* ------------------------------------------------------------ the claims
IsCursorQuery(id) == id \in QueryIds /\ conf[id].IndexColumnName # ""
\* the value the store holds for a query, its configured initial value while
\* it holds none
Checkpoint(id, entry) ==
    IF entry = {} THEN conf[id].InitialIndexColumnStartValue
    ELSE CHOOSE v \in entry : TRUE
SetMax(S) == CHOOSE m \in S : \A x \in S : x <= m
\* the cursor value of row i of the batch of the last tick
Cursor(i) == batch[i][ColIdx(conf[cur].IndexColumnName)]
HasNull(row) == \E i \in 1..Len(row) : row[i] = NullVal

\* C1: the stored checkpoint of a query is its initial value or the cursor
\* value of a row that has already been delivered downstream; fetching alone
\* never changes it.
C1_CheckpointOnlyAfterDelivery ==
    \A id \in QueryIds :
        state[id] \subseteq delivered[id] \cup {conf[id].InitialIndexColumnStartValue}

\* C2: after a successful tick of a cursor query the stored checkpoint is the
\* maximum cursor value of the rows delivered so far for it, and it is not
\* below the checkpoint the tick began with.
C2_CheckpointIsMaxDelivered ==
    (IsCursorQuery(cur) /\ outcome = "delivered")
        => /\ state[cur] = {SetMax(delivered[cur])}
           /\ Checkpoint(cur, state[cur]) >= Checkpoint(cur, before)

\* C3: when the retries of a batch are exhausted, the batch is dropped and the
\* checkpoint of its query is the one its tick began with, so that the next
\* tick fetches the same rows again.
C3_ExhaustedKeepsCheckpoint ==
    outcome = "exhausted"
        => /\ pc = "idle"
           /\ retries = ConsumeMaxRetries
           /\ state[cur] = before

\* C4: when the consumer answers a batch with a permanent error, the batch is
\* dropped without a further attempt and the checkpoint of its query is the
\* one its tick began with.
C4_PermanentKeepsCheckpoint ==
    outcome = "permanent"
        => /\ pc = "idle"
           /\ state[cur] = before

\* C5: while a batch is being retried (k transient failures so far, k within
\* the configured maximum) the checkpoint of its query has not been advanced;
\* it advances only with the successful attempt.
C5_NoAdvanceBeforeSuccess ==
    (pc = "deliver" /\ retries \in 1..ConsumeMaxRetries) => state[cur] = before

\* the text C6 asks for: the configured text, one predicate on the cursor
\* column with the given value, one order by
ExpectedText(id, kw, value) ==
    conf[id].Query \o
    <<W(kw), W(conf[id].IndexColumnName), W(">"),
      V(value, conf[id].IndexColumnType = "TIMESTAMP"),
      W("order by"), W(conf[id].IndexColumnName), W("asc;")>>

\* C6: the text a tick of a cursor query executes is the configured text
\* followed by exactly one predicate `<cursor> > <value>` and one order by,
\* the value being the checkpoint current at the tick, or the initial value.
C6_ExecutedText ==
    (IsCursorQuery(cur) /\ executed # <<>>)
        => \E kw \in {"where", "and"} :
              executed = ExpectedText(cur, kw, Checkpoint(cur, before))

\* C7: after any number of ticks the stored QuerySpecs equal the configured ones.
C7_QuerySpecImmutable == DBQueries = conf

\* C8: right after a tick of a cursor query that the database answered, running
\* the query again (checkpoint as the tick left it, table unchanged) fetches
\* no row.
C8_RerunFetchesNothing ==
    [][(ticks' = ticks + 1 /\ IsCursorQuery(cur') /\ outcome' \in {"empty", "pending"})
        => \A rows \in Results(QueryToRun(IF byValue THEN conf[cur'] ELSE DBQueries'[cur'],
                                          state'), table') :
              \/ ~WellFormed(QueryToRun(IF byValue THEN conf[cur'] ELSE DBQueries'[cur'],
                                        state'))
              \/ rows = <<>>]_vars

\* the record the encoder owes a row: every column name with the row's value
RecordOf(row) == [k \in ColSet |-> row[ColIdx(k)]]

\* C9: a query without a cursor column never gets a checkpoint; a tick of it
\* executes the configured text as it stands and, when the database answers,
\* returns one record for every row of the table (the row's own values when
\* the row holds no NULL).
C9_SnapshotVerbatimFullSet ==
    /\ \A id \in QueryIds : ~IsCursorQuery(id) => state[id] = {}
    /\ (cur \in QueryIds /\ ~IsCursorQuery(cur))
         => /\ executed = conf[cur].Query
            /\ DBQueries[cur] = conf[cur]
            /\ pc = "deliver"
                 => /\ {batch[i] : i \in 1..Len(batch)} = table
                    /\ Len(batch) = Cardinality(table)
                    /\ DOMAIN records = {[id |-> cur, ord |-> j] : j \in 1..Len(batch)}
                    /\ \A j \in 1..Len(batch) :
                          ~HasNull(batch[j])
                             => Unmarshal(records[[id |-> cur, ord |-> j]]) = RecordOf(batch[j])

\* a second tick has run the snapshot query over a table of three rows
C9_Witness ==
    /\ pc = "deliver"
    /\ cur = "Q1"
    /\ ticks = 2
    /\ Cardinality(table) = 3

\* C10: after a non-empty fetch of a cursor query the checkpoint is the cursor
\* value of the last row fetched, the maximum of the cursor values fetched,
\* whatever NULLs the rows hold in other columns.
C10_CandidateIsLastRow ==
    (IsCursorQuery(cur) /\ Len(batch) > 0)
        => /\ outcome # "panic"
           /\ state[cur] = {Cursor(Len(batch))}
           /\ \A i \in 1..Len(batch) : Cursor(i) <= Cursor(Len(batch))

\* the record a row is owed when NULL is written as the string "NULL"
RecordWithNulls(row) ==
    [k \in ColSet |-> IF row[ColIdx(k)] = NullVal THEN NullText ELSE row[ColIdx(k)]]

\* C11: every record of a batch maps each column name of the result set to
\* the value of that column in its own row, a NULL to the string "NULL"; no
\* column is dropped and no value moves to another column name.
C11_RecordMapsOwnColumns ==
    (cur \in QueryIds /\ DOMAIN records # {})
        => \A j \in 1..Len(batch) :
              Unmarshal(records[RecordKey(cur, j - 1)]) = RecordWithNulls(batch[j])

\* C12: a fetch of n rows yields exactly n records, keyed <queryId>_record1
\* to <queryId>_record<n>, and these are the records getRecords returns.
C12_OneRecordPerRow ==
    (cur \in QueryIds /\ executed # <<>>)
        => LET res == ExecuteQueryandFetchRecords(FALSE, batch, cur)
           IN /\ DOMAIN res.records = {[id |-> cur, ord |-> n] : n \in 1..Len(batch)}
              /\ Cardinality(DOMAIN res.records) = Len(batch)
              /\ outcome # "panic" => records = res.records

\* the example of the design: a fetch of Q1 over two rows gave Q1_record1
\* and Q1_record2
C12_Witness ==
    /\ cur = "Q1"
    /\ Len(batch) = 2
    /\ DOMAIN records = {[id |-> "Q1", ord |-> 1], [id |-> "Q1", ord |-> 2]}

\* C13: the records of a batch reach the consumer in fetch order: record i
\* before record i+1, for every i.
C13_HandedInFetchOrder == outcome = "delivered" => inOrder

\* C14: a malformed QuerySpec is refused when the receiver starts: no tick
\* ever runs getRecords on one, neither to skip it nor to run it as a
\* snapshot query.
C14_MalformedRejectedAtStartup ==
    \A id \in QueryIds : Malformed(conf[id]) => cur # id

\* C15: a tick in which the query, the reading of its columns, a scan or the
\* encoding of a row failed returns no record, leaves the checkpoint of its
\* query as the tick found it, and leaves the receiver ready for the tick of
\* any query.
C15_FailedTickIsolated ==
    outcome = "failed"
        => /\ DOMAIN records = {}
           /\ state[cur] = before
           /\ pc = "idle"

\* a tick of a cursor query that holds a checkpoint failed while the table
\* held a row beyond the checkpoint
C15_Witness ==
    /\ outcome = "failed"
    /\ IsCursorQuery(cur)
    /\ ~Malformed(conf[cur])
    /\ before # {}
    /\ \E row \in table : row[ColIdx(conf[cur].IndexColumnName)] > Checkpoint(cur, before)

\* C16: no tick of a well-formed QuerySpec ends in a panic, whatever rows the
\* database returns: getRecords always returns.
C16_GetRecordsNeverPanics ==
    (cur \in QueryIds /\ ~Malformed(conf[cur])) => pc # "crashed"

\* a limit as the design wants it set: the configured value when it is
\* positive, else the default of that limit
OwnLimit(configured, default) == IF configured > 0 THEN configured ELSE default

\* C17: every handle Connect opened has each of its three limits set from
\* that limit's own configured value: the value when positive, else 3
\* minutes, 5 and 5, whatever the other two are.
C17_LimitsIndependent ==
    \A i \in 1..Len(opened) :
        opened[i].limits =
            [lifetime |-> OwnLimit(config.SetConnMaxLifetime, DefaultConnMaxLifetime),
             open |-> OwnLimit(config.SetMaxOpenConns, DefaultMaxOpenConns),
             idle |-> OwnLimit(config.SetMaxIdleConns, DefaultMaxIdleConns)]

\* C18: the Close of a handle is called at most once, however many times
\* Close is called on the client.
C18_HandleClosedOnce ==
    \A i \in 1..Len(opened) : opened[i].closes <= 1

\* the errors after which the design wants no client
CredentialErrors ==
    {"SecretUnavailable", "DecryptionFailed", "TokenIssuanceFailed", "TrustStoreInvalid"}

\* C19: a client exists only if the key file was read, the decryption
\* succeeded, the token was issued and the trust bundle was loaded, as far as
\* the configured mode needs them.
C19_NoClientAfterCredentialError ==
    stage = "built" => errs \cap CredentialErrors = {}

\* C20: with a plaintext password and a path to the secret file the client
\* is built whatever the reading of the key and the encryption answer; its
\* password is the configured one (the token, when the mode is IAMRDSAuth),
\* and its connection string is one the same configuration gives without the
\* path.
C20_HintOnlyLogged ==
    /\ (stage = "config" /\ WantsHint(config)) => ENABLED newMySQLClient
    /\ (stage = "built" /\ WantsHint(config))
         => /\ config.AuthenticationMode # "IAMRDSAuth"
                 => connStr.Passwd = config.Password
            /\ connStr \in {driverConf([config EXCEPT !.EncryptSecretPath = ""], e) :
                               e \in Environments}

\* a client built for password authentication although the encryption of
\* the hint failed
C20_Witness ==
    /\ stage = "built"
    /\ WantsHint(config)
    /\ config.AuthenticationMode = "BasicAuth"
    /\ "HintEncryptFailed" \in errs
    /\ connStr.Passwd = Plaintext

\* C21: started against a database that answers, with the snapshot query Q1
\* over a table that holds rows, the receiver eventually has a non-empty
\* batch accepted by the consumer and is then shut down without an error.
C21_ReceivesThenShutsDown ==
    <>(/\ stage = "shutdown"
       /\ errs = {}
       /\ outcome = "delivered"
       /\ cur = "Q1"
       /\ DOMAIN records # {})

\* the sink holds a batch of Q1 and the receiver has been shut down
C21_Witness ==
    /\ stage = "shutdown"
    /\ outcome = "delivered"
    /\ cur = "Q1"
    /\ Len(batch) >= 1
    /\ opened[client].closes = 1

\* C22: the shutdown signal is closed exactly once however many calls of
\* Shutdown there are and however they interleave, no call panics on a closed
\* signal, and a call whose context is cancelled closes it all the same.
C22_SignalClosedOnce ==
    /\ closes <= 1
    /\ \A s \in 1..MaxShutdowns :
         /\ calls[s].pc # "panic"
         /\ calls[s].pc \in {"select", "returned"} => closeChan = "closed" /\ closes = 1

C22_Witness ==
    /\ \A s \in 1..MaxShutdowns : calls[s].pc = "returned"
    /\ \E s \in 1..MaxShutdowns : calls[s].result = "ctx.Err"
    /\ closes = 1
    /\ closeChan = "closed"

\* C23: no two workers hold the same query at once, and between a worker's
\* read of a query's checkpoint and its write of it no other worker has
\* written that checkpoint.
C23_OneWorkerPerQuery ==
    /\ \A w1, w2 \in 1..MaxWorkers :
         w1 # w2 /\ workers[w1].pc # "idle" /\ workers[w2].pc # "idle"
            => workers[w1].id # workers[w2].id
    /\ \A w \in 1..MaxWorkers :
         workers[w].pc = "write" => state[workers[w].id] = workers[w].seen

C23_Witness ==
    /\ ticks = MaxTicks
    /\ \A w \in 1..MaxWorkers : workers[w].pc = "write"
    /\ \E w \in 1..MaxWorkers : workers[w].seen # {}

\* C25: the cursor predicate of a cursor query is joined with "and" exactly
\* when the configured text carries a filter clause, in any spelling of its
\* keyword, and with "where" otherwise, also when a name in the text merely
\* contains the letters of the keyword.
C25_JoinedByFilterClause ==
    (IsCursorQuery(cur) /\ executed # <<>>)
        => executed[Len(conf[cur].Query) + 1].w
              = IF HasFilter(conf[cur].Query) THEN "and" ELSE "where"

\* C26: the record of a row depends on the column names and on that row's
\* values only: every record of a batch is the record the same row yields
\* when it is fetched alone, whatever the rows before it hold.
C26_EncodingPurePerRow ==
    (cur \in QueryIds /\ DOMAIN records # {})
        => \A j \in 1..Len(batch) :
              Unmarshal(records[RecordKey(cur, j - 1)])
                 = Unmarshal(ExecuteQueryandFetchRecords(FALSE, <<batch[j]>>, cur)
                                .records[RecordKey(cur, 0)])

\* C27: a call of Close leaves every handle that a call of Connect opened
\* closed: after any sequence of Connect and Close that ends with Close no
\* handle is still open.
C27_CloseLeavesNoHandleOpen ==
    [][(Len(opened') = Len(opened) /\ opened' # opened)
          => \A i \in 1..Len(opened') : opened'[i].closes >= 1]_vars

\* C28: once the signal is closed the heartbeat loop starts at most one more
\* heartbeat request and then ends, each request returning and the wait for
\* the interval ending on the signal (the timer need not fire); a loop
\* started after the signal was closed sends no heartbeat.
C28_LoopEndsAfterShutdown ==
    /\ [](sentAfterClose <= 1)
    /\ [](startedAfterClose => heartbeats = 0)
    /\ (closeChan = "closed" /\ loop # "notStarted") ~> (loop = "done")

C28_Witness ==
    /\ closeChan = "closed"
    /\ loop = "done"
    /\ sentAfterClose = 1
    /\ ~timer
    /\ heartbeats = MaxHeartbeats

\* the statement without the condition on the body: whenever register is
\* answered with a status outside 200-399, Start returns nil
C29_RefusedStartSucceeds ==
    (started # "none" /\ answer.response /\ Refused(answer.code))
        => /\ started = "nil"
           /\ registrationInfo = NoRegistration
           /\ heartbeats = 0

\* C29: a heartbeat is sent only with a collector id and a credential id
\* stored by register; when register is answered with a status outside
\* 200-399 and the body of the response is read, Start returns nil,
\* registrationInfo stays empty and no heartbeat is sent.
C29_HeartbeatOnlyWhenRegistered ==
    /\ heartbeats > 0
          => registrationInfo.CollectorId # "" /\ registrationInfo.CollectorCredentialId # ""
    /\ (started # "none" /\ answer.response /\ Refused(answer.code) /\ answer.readable)
          => /\ started = "nil"
             /\ registrationInfo = NoRegistration
             /\ heartbeats = 0
             /\ loop \in {"started", "done"}

C29_Witness ==
    /\ answer.code = 400
    /\ answer.readable
    /\ started = "nil"
    /\ loop = "done"
    /\ heartbeats = 0
    /\ registrationInfo = NoRegistration

====
